---- MODULE Spec2Model ----
(***************************************************************************)
(* Model of the conversation orchestration engine of Sorea-Agent:          *)
(*   - MentalHealthChatbot.process_conversation_async / _sync (chatbot.py) *)
(*   - FirebaseWriter, the background write queue (firebase_writer.py)     *)
(*                                                                         *)
(* Execution context: the process calls are coroutines of the event loop   *)
(* that owns the FirebaseWriter.  A coroutine runs without interruption    *)
(* between two awaits, so one action of the model is the code between two  *)
(* suspension points.  asyncio.create_task only schedules a coroutine: the *)
(* scheduled submit coroutines wait in the loop's FIFO of ready tasks      *)
(* (variable pending) until the loop runs them.                            *)
(***************************************************************************)
EXTENDS Integers, Sequences, FiniteSets, TLC

\* ------------------------------------------------------------------ bounds
NumCalls == 2      \* process calls that may be in flight together

Calls == 1..NumCalls

\* ------------------------------------------------------------- text values
\* A message is the sequence of its characters.
TEST_PREFIX == <<"[", "T", "E", "S", "T", "]">>

Messages ==
    { <<"[", "T", "E", "S", "T", "]", "x">>,   \* a test-mode message
      <<"[", "T", "E", "S", "T">> }            \* an ordinary message

\* str.startswith
startswith(s, p) == Len(s) >= Len(p) /\ SubSeq(s, 1, Len(p)) = p

\* A reply is the sequence of the pieces its text is concatenated from.
TEST_REPLY == <<"[TEST CHAT SUCCESS]">>
REDIRECT   == <<"Sorry but i can not answer to that question!!!.">>
NoReply    == <<"<no reply>">>

\* Texts the text-generation capability may return for a normal reply.
GeneratedTexts == { <<"<generated reply>">> }

\* UserProfile.name as read from the store (default 'Friend').
Names == { "Friend" }

\* Urgency levels the classifier returns (clamped to 1..5 by detect_emotion).
UrgencyLevels == 1..5

\* ------------------------------------------------- text-generation output
\* A word is the sequence of its characters.  A line of a response is the
\* label it starts with (its text up to and including the first ':', or the
\* whole line when it has none) and the value after it, already stripped.
MaxLines == 2      \* lines of a text-generation response

Line(label, value) == [label |-> label, value |-> value]

\* A response of llm.invoke: it raised, or it returned these lines.
Response(raised, lines) == [raised |-> raised, lines |-> lines]

SeqsUpTo(S, n) == UNION { [1..k -> S] : k \in 0..n }

Responses(lines) ==
    { Response(TRUE, <<>>) } \cup
    { Response(FALSE, ls) : ls \in SeqsUpTo(lines, MaxLines) }

DigitValue ==
    [ch \in {"0", "1", "2", "3", "4", "5", "6", "7", "8", "9"} |->
        CASE ch = "0" -> 0 [] ch = "1" -> 1 [] ch = "2" -> 2 [] ch = "3" -> 3
          [] ch = "4" -> 4 [] ch = "5" -> 5 [] ch = "6" -> 6 [] ch = "7" -> 7
          [] ch = "8" -> 8 [] ch = "9" -> 9]

IsDigits(s) == \A i \in DOMAIN s : s[i] \in DOMAIN DigitValue

\* The number the first i digits of s write, for i up to Len(s).
DigitsValue(s) ==
    LET v[i \in 0..Len(s)] ==
            IF i = 0 THEN 0 ELSE v[i - 1] * 10 + DigitValue[s[i]]
    IN  v[Len(s)]

Unsigned(s) == IF s # <<>> /\ s[1] \in {"-", "+"} THEN Tail(s) ELSE s

Sign(s) == IF s # <<>> /\ s[1] = "-" THEN -1 ELSE 1

ValueError == [ok |-> FALSE, nan |-> FALSE, value |-> 0]

Parsed(v) == [ok |-> TRUE, nan |-> FALSE, value |-> v]

\* int(str): an optional sign and decimal digits, or ValueError.
int(s) ==
    IF Unsigned(s) # <<>> /\ IsDigits(Unsigned(s))
    THEN Parsed(Sign(s) * DigitsValue(Unsigned(s)))
    ELSE ValueError

PointAt(s) == { i \in DOMAIN s : s[i] = "." }

\* The first two digits after the point, as hundredths.
Hundredths(frac) ==
    IF frac = <<>> THEN 0
    ELSE IF Len(frac) = 1 THEN 10 * DigitValue[frac[1]]
    ELSE DigitsValue(SubSeq(frac, 1, 2))

\* float(str), in hundredths: 'nan', or an optional sign and digits with at
\* most one point, or ValueError.
float(s) ==
    LET u == Unsigned(s)
        p == CHOOSE i \in PointAt(u) : TRUE
        whole == SubSeq(u, 1, p - 1)
        frac == SubSeq(u, p + 1, Len(u))
    IN  IF s = <<"n", "a", "n">> THEN [ok |-> TRUE, nan |-> TRUE, value |-> 0]
        ELSE IF PointAt(u) = {} THEN
            IF int(s).ok THEN Parsed(100 * int(s).value) ELSE ValueError
        ELSE IF /\ Cardinality(PointAt(u)) = 1
                /\ IsDigits(whole) /\ IsDigits(frac)
                /\ whole \o frac # <<>>
             THEN Parsed(Sign(s) * (100 * DigitsValue(whole) + Hundredths(frac)))
        ELSE ValueError

\* min(a, b) and max(a, b) of Python: b is chosen only when the comparison
\* with a holds, and no comparison with nan holds.
min(a, b) == IF ~a.nan /\ ~b.nan /\ b.value < a.value THEN b ELSE a

max(a, b) == IF ~a.nan /\ ~b.nan /\ b.value > a.value THEN b ELSE a

UpperOf(ch) ==
    CASE ch = "y" -> "Y" [] ch = "e" -> "E" [] ch = "s" -> "S"
      [] ch = "n" -> "N" [] ch = "o" -> "O" [] OTHER -> ch

LowerOf(ch) ==
    CASE ch = "S" -> "s" [] ch = "A" -> "a" [] ch = "D" -> "d"
      [] ch = "E" -> "e" [] OTHER -> ch

\* str.upper and str.lower
upper(s) == [i \in DOMAIN s |-> UpperOf(s[i])]

lower(s) == [i \in DOMAIN s |-> LowerOf(s[i])]

\* 'sub in s'
contains(s, sub) ==
    \E i \in 1..(Len(s) - Len(sub) + 1) :
        SubSeq(s, i, i + Len(sub) - 1) = sub

\* ------------------------------------------------------ escalation handler
\* Outcomes of the handler's text-generation call.
CrisisGenOutcomes == { "raise", "no_json", "json_no_field", "json_ok" }

\* The resource lines the handler's prompt tells the model to include.
CRISIS_RESOURCES ==
    <<"Call 988 (Suicide & Crisis Lifeline)", "Text HOME to 741741",
      "Call 911 if in immediate danger", "Go to nearest emergency room">>

fallback_message(name) ==
    <<"What's really on your heart right now, ", name, "? ",
      "How can I best support you today?">>

\* CrisisManager.handle_crisis_situation: the profile is read before the try
\* block, so a failing read raises; a failing or unparsable generation gives
\* the fallback message; parsed JSON gives its crisis_response field, or ''.
handle_crisis_situation(profileOk, name, gen) ==
    IF ~profileOk THEN [raised |-> TRUE, content |-> NoReply]
    ELSE IF gen \in {"raise", "no_json"}
         THEN [raised |-> FALSE, content |-> fallback_message(name)]
    ELSE IF gen = "json_no_field"
         THEN [raised |-> FALSE, content |-> <<>>]
    ELSE [raised |-> FALSE,
          content |-> <<"<crisis_response>">> \o CRISIS_RESOURCES]

CrisisResults ==
    { handle_crisis_situation(p, n, g) :
        p \in BOOLEAN, n \in Names, g \in CrisisGenOutcomes }

\* -------------------------------------------------------------- classifier
neutral == <<"n", "e", "u", "t", "r", "a", "l">>

ClassifierLines ==
    { Line("EMOTION:", <<"S", "A", "D">>), Line("EMOTION:", <<>>),
      Line("REASONING:", <<>>) } \cup
    { Line("URGENCY:", v) :
        v \in { <<"-", "1">>, <<"0">>, <<"1">>, <<"2">>, <<"3">>, <<"4">>,
                <<"5">>, <<"6">>, <<"1", "2">>, <<"3", ".", "5">>,
                <<"h", "i">>, <<>> } }

clamp_urgency_unclamped(v) == v.value

\* max(1, min(5, urgency_level))
clamp_urgency(v) == max(Parsed(1), min(Parsed(5), v)).value

Classified(label, urgency_level) ==
    [emotion |-> label, urgency_level |-> urgency_level]

\* The loop over the lines of the response, acc[i] being the variables
\* after line i: the last EMOTION and URGENCY lines win; an URGENCY value
\* int() rejects gives 1.
parse_emotion(lines, initial) ==
    LET acc[i \in 0..Len(lines)] ==
            IF i = 0 THEN initial
            ELSE IF lines[i].label = "EMOTION:"
            THEN Classified(lower(lines[i].value), acc[i - 1].urgency_level)
            ELSE IF lines[i].label = "URGENCY:"
            THEN Classified(acc[i - 1].emotion,
                    IF int(lines[i].value).ok
                    THEN clamp_urgency(int(lines[i].value)) ELSE 1)
            ELSE acc[i - 1]
    IN  acc[Len(lines)]

\* HelperManager.detect_emotion: any exception gives ("neutral", 1).
detect_emotion(llm_response) ==
    IF llm_response.raised THEN Classified(neutral, 1)
    ELSE parse_emotion(llm_response.lines, Classified(neutral, 1))

\* ------------------------------------------------------------ topic filter
FilterLines ==
    { Line("MENTAL_HEALTH:", v) :
        v \in { <<"Y", "E", "S">>, <<"y", "e", "s">>, <<"N", "O">>, <<>> } }
    \cup
    { Line("CONFIDENCE:", v) :
        v \in { <<"-", "0", ".", "5">>, <<"0">>, <<"0", ".", "0", "5">>,
                <<"0", ".", "7">>, <<"1">>, <<"2", ".", "5">>,
                <<"n", "a", "n">>, <<"h", "i">>, <<>> } }
    \cup { Line("REASON:", <<>>) }

\* max(0.1, min(1.0, confidence)), in hundredths
clamp_confidence(v) == max(Parsed(10), min(Parsed(100), v)).value

FilterAcc(mh, conf) == [is_mental_health |-> mh, confidence |-> conf]

\* The loop over the lines, acc[i] being the variables after line i: "None"
\* stands for a field no line has set.  The label MENTAL_HEALTH: has no YES
\* in it, so 'YES in line.upper()' is decided by the value.
parse_filter(lines, initial) ==
    LET acc[i \in 0..Len(lines)] ==
            IF i = 0 THEN initial
            ELSE IF lines[i].label = "MENTAL_HEALTH:"
            THEN FilterAcc(
                    IF contains(upper(lines[i].value), <<"Y", "E", "S">>)
                    THEN "True" ELSE "False",
                    acc[i - 1].confidence)
            ELSE IF lines[i].label = "CONFIDENCE:"
            THEN FilterAcc(acc[i - 1].is_mental_health,
                    IF float(lines[i].value).ok
                    THEN Parsed(clamp_confidence(float(lines[i].value)))
                    ELSE Parsed(10))
            ELSE acc[i - 1]
    IN  acc[Len(lines)]

MentalHealthTopicFilter(raised, related, score) ==
    [raised |-> raised, is_mental_health_related |-> related,
     confidence_score |-> score]

\* MentalHealthFilter.filter: llm.invoke is outside any try block, so its
\* exception leaves the filter; bool(None) is False and a confidence no line
\* has set is 0.1.
filter(llm_response) ==
    LET acc == parse_filter(llm_response.lines,
                            FilterAcc("None", ValueError)) IN
    IF llm_response.raised THEN MentalHealthTopicFilter(TRUE, FALSE, 0)
    ELSE MentalHealthTopicFilter(FALSE,
             acc.is_mental_health = "True",
             IF acc.confidence.ok THEN acc.confidence.value ELSE 10)

\* ------------------------------------------------------------ user profile
Emails == { "a@x", "b@x" }

\* A stored document of 'users': a dict with or without the key 'name'.
NoFields == [key \in {} |-> "None"]

NoDocument == [exists |-> FALSE, fields |-> NoFields]

Document(fields) == [exists |-> TRUE, fields |-> fields]

Documents ==
    { NoDocument, Document(NoFields), Document([name |-> "Asha"]) }

\* dict.get(key, default)
get(d, key, default) == IF key \in DOMAIN d THEN d[key] ELSE default

UserProfileFields == { "name", "username", "age", "gender", "avatar" }

\* data.UserProfile(**kwargs): a pydantic model keeps its declared fields
\* and ignores every other keyword.
UserProfile(kwargs) == [f \in UserProfileFields |-> get(kwargs, f, "None")]

ProfileResult(raised, name, store) ==
    [raised |-> raised, name |-> name, users |-> store]

\* FirebaseManager.get_user_profile.  With no stored document the dict given
\* to doc_ref.set is built first, and reading default_profile.timezone, which
\* UserProfile does not declare, raises AttributeError before set is called.
get_user_profile(initialized, readable, store, email) ==
    LET default_profile ==
            UserProfile([email |-> email, name |-> "Friend", timezone |-> "UTC"])
    IN  IF ~initialized \/ ~readable THEN ProfileResult(TRUE, "None", store)
        ELSE IF store[email].exists
        THEN ProfileResult(FALSE,
                 UserProfile([email |-> email,
                              name |-> get(store[email].fields, "name", "Friend"),
                              timezone |-> get(store[email].fields, "timezone", "UTC")]).name,
                 store)
        ELSE IF "timezone" \notin DOMAIN default_profile
        THEN ProfileResult(TRUE, "None", store)
        ELSE ProfileResult(FALSE, default_profile.name,
                 [store EXCEPT ![email] =
                     Document([name |-> default_profile.name,
                               timezone |-> default_profile.timezone])])

\* ---------------------------------------------------------- event manager
Dashes(s) == { i \in DOMAIN s : s[i] = "-" }

DaysIn(y, m) ==
    IF m = 2
    THEN IF y % 4 = 0 /\ (y % 100 # 0 \/ y % 400 = 0) THEN 29 ELSE 28
    ELSE IF m \in {4, 6, 9, 11} THEN 30 ELSE 31

NoDate == [ok |-> FALSE, y |-> 0, m |-> 0, d |-> 0]

\* datetime.strptime(s, '%Y-%m-%d').date(): four digits, one or two digits
\* of a month, one or two digits of a day of that month; or ValueError.
strptime(s) ==
    LET p == CHOOSE i \in Dashes(s) : \A j \in Dashes(s) : i <= j
        q == CHOOSE i \in Dashes(s) : \A j \in Dashes(s) : i >= j
        ys == SubSeq(s, 1, p - 1)
        ms == SubSeq(s, p + 1, q - 1)
        ds == SubSeq(s, q + 1, Len(s))
        y == DigitsValue(ys)
        m == DigitsValue(ms)
        d == DigitsValue(ds)
    IN  IF Cardinality(Dashes(s)) # 2 THEN NoDate
        ELSE IF ~ /\ Len(ys) = 4 /\ IsDigits(ys)
                  /\ Len(ms) \in 1..2 /\ IsDigits(ms)
                  /\ Len(ds) \in 1..2 /\ IsDigits(ds)
             THEN NoDate
        ELSE IF y >= 1 /\ m \in 1..12 /\ d \in 1..DaysIn(y, m)
             THEN [ok |-> TRUE, y |-> y, m |-> m, d |-> d]
        ELSE NoDate

NotAfter(a, b) ==
    \/ a.y < b.y
    \/ a.y = b.y /\ a.m < b.m
    \/ a.y = b.y /\ a.m = b.m /\ a.d <= b.d

\* date < date
Before(a, b) ==
    \/ a.y < b.y
    \/ a.y = b.y /\ a.m < b.m
    \/ a.y = b.y /\ a.m = b.m /\ a.d < b.d

\* Event dates as the extractor's output writes them: the day before today,
\* today, the day after without zero padding, a day that does not exist and
\* a word.
EventDates ==
    { <<"2", "0", "2", "6", "-", "1", "0", "-", "3", "1">>,
      <<"2", "0", "2", "6", "-", "1", "1", "-", "0", "1">>,
      <<"2", "0", "2", "6", "-", "1", "1", "-", "2">>,
      <<"2", "0", "2", "6", "-", "0", "2", "-", "3", "0">>,
      <<"s", "o", "o", "n">> }

\* date.today()
today == strptime(<<"2", "0", "2", "6", "-", "1", "1", "-", "0", "1">>)

\* email.split('@')[0]
LocalPart == [e \in Emails |-> IF e = "a@x" THEN <<"a">> ELSE <<"b">>]

\* str.replace(' ', '_')
replace_spaces(s) == [i \in DOMAIN s |-> IF s[i] = " " THEN "_" ELSE s[i]]

\* hashlib.md5(message.encode()).hexdigest()[:6]: a fixed function of the
\* text, which two texts may share.
HashBuckets == 3

md5_prefix(message) ==
    <<(<<"0", "1", "2", "3">>)[(Len(message) % HashBuckets) + 1]>>

\* event_id = f"{type}_{user}_{date}_{hash}"
event_id(event_type, email, event_date, message) ==
    replace_spaces(lower(event_type)) \o <<"_">> \o LocalPart[email]
        \o <<"_">> \o event_date \o <<"_">> \o md5_prefix(message)

\* datetime.now() of two detections
Times == 1..2

\* Event(eventid, eventType, description, eventDate, mentionedAt=now(),
\* isCompleted)
Event(eventid, eventType, description, eventDate, mentionedAt) ==
    [eventid |-> eventid, eventType |-> eventType,
     description |-> description, eventDate |-> eventDate,
     mentionedAt |-> mentionedAt, isCompleted |-> FALSE]

\* Values of the keys of the JSON object in the extractor's output; a key
\* may be absent, and event_type may be null.
JsonConfidences ==
    { [kind |-> "absent", value |-> 0], [kind |-> "text", value |-> 0] } \cup
    { [kind |-> "number", value |-> v] : v \in {50, 70, 90} }

JsonEventTypes ==
    { [kind |-> "absent", text |-> <<>>], [kind |-> "null", text |-> <<>>],
      [kind |-> "text", text |-> <<"e", "x", "a", "m">>],
      [kind |-> "text", text |-> <<"E", "x", "a", "m", " ", "d", "a", "y">>] }

JsonEventDates ==
    { [kind |-> k, text |-> <<>>] : k \in {"absent", "null", "array"} } \cup
    { [kind |-> "text", text |-> d] : d \in EventDates }

NoJson(k) ==
    [kind |-> k, has_event |-> "absent",
     confidence |-> [kind |-> "absent", value |-> 0],
     event_type |-> [kind |-> "absent", text |-> <<>>],
     event_date |-> [kind |-> "absent", text |-> <<>>]]

\* What llm.invoke gives the extractor: it raises, or returns text without
\* braces, text whose braces hold no JSON, or a JSON object.
ExtractorOutputs ==
    { NoJson(k) : k \in {"raise", "no_json", "bad_json"} } \cup
    { [kind |-> "json", has_event |-> h, confidence |-> c,
       event_type |-> t, event_date |-> d] :
        h \in {"absent", "true", "false"}, c \in JsonConfidences,
        t \in JsonEventTypes, d \in JsonEventDates }

NoEvent ==
    [raised |-> FALSE, found |-> FALSE,
     event |-> Event(<<>>, <<>>, <<>>, <<>>, 0)]

Raised == [NoEvent EXCEPT !.raised = TRUE]

\* The body of the outer try of _extract_events_with_llm: llm.invoke may
\* raise; text without a JSON object, a JSONDecodeError (passed), an object
\* without has_event, a false has_event and a confidence below 0.7 reach
\* 'return None'; a confidence that is no number raises TypeError at '>=', an
\* event_type that is no string AttributeError at '.lower()', and an
\* event_date that is no string (the key absent gives None) ValidationError
\* in Event(...). Any string is accepted as the event date.
extract_try(message, email, out, now) ==
    LET event_type == IF out.event_type.kind = "absent"
                      THEN <<"e", "v", "e", "n", "t">>
                      ELSE out.event_type.text
    IN  IF out.kind = "raise" THEN Raised
        ELSE IF out.kind # "json" \/ out.has_event = "absent" THEN NoEvent
        ELSE IF out.has_event # "true" THEN NoEvent
        ELSE IF out.confidence.kind = "text" THEN Raised
        ELSE IF out.confidence.value < 70 THEN NoEvent
        ELSE IF out.event_type.kind = "null" THEN Raised
        ELSE IF out.event_date.kind # "text" THEN Raised
        ELSE [raised |-> FALSE, found |-> TRUE,
              event |-> Event(event_id(event_type, email,
                                       out.event_date.text, message),
                              event_type, message, out.event_date.text,
                              now)]

\* EventManager._extract_events_with_llm: 'except Exception: return None'.
extract_events_with_llm(message, email, out, now) ==
    IF extract_try(message, email, out, now).raised THEN NoEvent
    ELSE extract_try(message, email, out, now)

add_document(docs, doc) == docs \cup {doc}

\* document(eventid).set(event_data): the document of that id is replaced.
set_document(docs, doc) == { d \in docs : d.eventid # doc.eventid } \cup {doc}

\* EventManager.add_event on the user's events: nothing without a store, and
\* a failing write is logged.
add_event(initialized, writable, docs, event) ==
    IF ~initialized THEN docs
    ELSE IF ~writable THEN docs
    ELSE set_document(docs, event)

\* document(eventid).delete()
delete_document(docs, eventid) == { d \in docs : d.eventid # eventid }

\* The loop of delete_events from the i-th event of the list on: an event
\* whose date strptime rejects, or whose delete raises, is logged and the
\* loop goes on; deletable holds the positions whose delete succeeds.
RECURSIVE delete_from(_, _, _, _)
delete_from(docs, event_list, deletable, i) ==
    IF i > Len(event_list) THEN docs
    ELSE LET event == event_list[i]
             event_date == strptime(event.eventDate)
         IN  IF event_date.ok /\ Before(event_date, today) /\ i \in deletable
             THEN delete_from(delete_document(docs, event.eventid),
                              event_list, deletable, i + 1)
             ELSE delete_from(docs, event_list, deletable, i + 1)

\* EventManager.delete_events
delete_events(initialized, deletable, docs, event_list) ==
    IF ~initialized THEN docs
    ELSE delete_from(docs, event_list, deletable, 1)

\* The outputs that make the extractor return an Event of one type.
DetectedOutputs ==
    { out \in ExtractorOutputs :
        /\ out.kind = "json" /\ out.has_event = "true"
        /\ out.confidence = [kind |-> "number", value |-> 90]
        /\ out.event_type.text = <<"E", "x", "a", "m", " ", "d", "a", "y">>
        /\ out.event_date.kind = "text" }

\* What 'event = await event_future' gives chatbot.py:163, with the user.
DetectedEvents ==
    { [email |-> e,
       event |-> extract_events_with_llm(message, e, out, now).event] :
        e \in Emails, message \in Messages, out \in DetectedOutputs,
        now \in Times }

\* ------------------------------------------------------ conversation store
\* The documents conv_YYYYMMDD of a user's conversations: yesterday's and
\* today's.
Yesterday == "conv_20261031"

Today == "conv_20261101"

Buckets == { Yesterday, Today }

\* A conversation document with its counters and its subcollection 'chat' in
\* the order of the timestamps.
Conversation(chatPairCount, messageCount, chat) ==
    [exists |-> TRUE, chatPairCount |-> chatPairCount,
     messageCount |-> messageCount, chat |-> chat]

NoConversation ==
    [exists |-> FALSE, chatPairCount |-> 0, messageCount |-> 0, chat |-> <<>>]

\* A document of 'chat': the user's message and the model's response.
ChatPair(user_message, model_response) ==
    [user |-> user_message, model |-> model_response]

ModelResponse == <<"o", "k">>

ChatPairs == { ChatPair(m, ModelResponse) : m \in Messages }

\* MessageManager.add_chat_pair on the user's conversations: nothing without
\* a store; conv_doc_ref.set(..., merge=True) increments the counters of
\* today's document, creating it if need be, and then chat.add stores the
\* pair; either write may raise, which ends the method with a log line.
add_chat_pair(initialized, set_ok, add_ok, buckets, user, model) ==
    LET counted == [buckets EXCEPT
                      ![Today] = Conversation(@.chatPairCount + 1,
                                              @.messageCount + 2, @.chat)]
        added == [counted EXCEPT
                    ![Today].chat = Append(@, ChatPair(user, model))]
    IN  IF ~initialized THEN buckets
        ELSE IF ~set_ok THEN buckets
        ELSE IF ~add_ok THEN counted
        ELSE added

\* sequence[-n:]
last_n(sequence, n) ==
    IF Len(sequence) <= n THEN sequence
    ELSE SubSeq(sequence, Len(sequence) - n + 1, Len(sequence))

\* order_by('timestamp', DESCENDING).limit(limit), reversed
last_pairs(chat, limit) == last_n(chat, limit)

NoTime == [raised |-> FALSE, found |-> FALSE, bucket |-> Today]

\* A call of get_last_conversation_time with the positional arguments args
\* after self: the method takes (firebase_manager, email), so any other
\* number of arguments is a TypeError; called as defined, it gives the time
\* of the latest chat pair of the user, here the day of its bucket, or None.
get_last_conversation_time(args, buckets) ==
    LET with_chat == { b \in Buckets : buckets[b].chat # <<>> } IN
    IF Len(args) # 2 THEN [NoTime EXCEPT !.raised = TRUE]
    ELSE IF with_chat = {} THEN NoTime
    ELSE [raised |-> FALSE, found |-> TRUE,
          bucket |-> IF Today \in with_chat THEN Today ELSE Yesterday]

NoPairs == [raised |-> FALSE, value |-> <<>>]

\* The try of get_conversation: doc_ref.get() may raise; without a document
\* for the date, self.get_last_conversation_time(email) is called with one
\* argument; the chat of the document found is read, the newest 'limit'
\* pairs oldest first.
get_conversation_try(readable, buckets, email, date, limit) ==
    LET last_conversation_time ==
            get_last_conversation_time(<<email>>, buckets)
        last_date == last_conversation_time.bucket
    IN  IF ~readable THEN [NoPairs EXCEPT !.raised = TRUE]
        ELSE IF buckets[date].exists
             THEN [raised |-> FALSE,
                   value |-> last_pairs(buckets[date].chat, limit)]
        ELSE IF last_conversation_time.raised
             THEN [NoPairs EXCEPT !.raised = TRUE]
        ELSE IF ~last_conversation_time.found THEN NoPairs
        ELSE IF ~buckets[last_date].exists THEN NoPairs
        ELSE [raised |-> FALSE,
              value |-> last_pairs(buckets[last_date].chat, limit)]

get_conversation_uncaught(initialized, readable, buckets, email, date, limit) ==
    IF ~initialized THEN NoPairs
    ELSE get_conversation_try(readable, buckets, email, date, limit)

\* MessageManager.get_conversation: [] without a store, and
\* 'except Exception: return []'.
get_conversation(initialized, readable, buckets, email, date, limit) ==
    IF ~initialized THEN NoPairs
    ELSE IF get_conversation_try(readable, buckets, email, date,
                                 limit).raised
         THEN NoPairs
    ELSE get_conversation_try(readable, buckets, email, date, limit)

\* get_conversation(email, firebase_manager, None, 20)
HISTORY_LIMIT == 20

\* recent_messages[-3:]
LAST_MESSAGES == 3

last_messages_with_message(recent_messages, message) ==
    Append([i \in DOMAIN last_n(recent_messages, LAST_MESSAGES) |->
               last_n(recent_messages, LAST_MESSAGES)[i].user], message)

\* [msg.user_message.content for msg in recent_messages[-3:]] if
\* recent_messages, else [message]: what the Topic Filter is given.
last_messages(recent_messages, message) ==
    IF recent_messages # <<>>
    THEN [i \in DOMAIN last_n(recent_messages, LAST_MESSAGES) |->
             last_n(recent_messages, LAST_MESSAGES)[i].user]
    ELSE <<message>>

\* ----------------------------------------------------------- branch logic
async_branch_urgency_first(relevant, urgency_level) ==
    IF urgency_level >= 5 THEN "escalation"
    ELSE IF ~relevant THEN "redirect"
    ELSE "normal"

\* process_conversation_async, after the topic filter returned.
async_branch(relevant, urgency_level) ==
    IF ~relevant THEN "redirect"
    ELSE IF urgency_level >= 5 THEN "escalation"
    ELSE "normal"

\* process_conversation_sync, after all its collaborators returned.
sync_branch(message, relevant, urgency_level) ==
    IF startswith(message, TEST_PREFIX) THEN "test"
    ELSE IF ~relevant THEN "redirect"
    ELSE IF urgency_level >= 5 THEN "escalation"
    ELSE "normal"

\* Outcomes of the reply-generating call llm.invoke.
GenOutcomes ==
    { [raised |-> TRUE, content |-> NoReply] } \cup
    { [raised |-> FALSE, content |-> t] : t \in GeneratedTexts }

Verdict(topic_filter) ==
    IF topic_filter.raised THEN "raise"
    ELSE IF topic_filter.is_mental_health_related THEN "relevant"
    ELSE "not_relevant"

\* Outcomes of MentalHealthFilter.filter in a process call.
FilterOutcomes ==
    { Verdict(filter(r)) :
        r \in { Response(TRUE, <<>>), Response(FALSE, <<>>),
                Response(FALSE, <<Line("MENTAL_HEALTH:", <<"Y", "E", "S">>)>>) } }

\* Responses the classifier's llm.invoke gives in a process call.
ClassifierResponses ==
    { Response(TRUE, <<>>),
      Response(FALSE, <<Line("URGENCY:", <<"4">>)>>),
      Response(FALSE, <<Line("URGENCY:", <<"5">>)>>),
      Response(FALSE, <<Line("EMOTION:", <<"S", "A", "D">>),
                        Line("URGENCY:", <<"3">>)>>),
      Response(FALSE, <<Line("EMOTION:", <<"S", "A", "D">>),
                        Line("URGENCY:", <<"1", "2">>)>>) }

\* What detect_emotion returns in a process call.
ClassifierResults == { detect_emotion(r) : r \in ClassifierResponses }

\* ------------------------------------------------------------------- state
Fetches == { "profile", "classifier", "turns" }

Capabilities ==
    Fetches \cup { "filter", "extractor", "escalation", "generate" }

Passes == { "async", "sync" }

VARIABLES
    pc,            \* where each process call is
    msg,           \* its message
    fetched,       \* fetches of asyncio.gather that have completed
    urgency,       \* urgency_level of the current pass (0: none yet)
    emotion,       \* emotion of the current pass
    verdict,       \* topic verdict of the current pass
    pass,          \* "async": concurrent path, "sync": degraded fallback
    invoked,       \* capabilities invoked so far, per pass
    asyncRaised,   \* the concurrent path raised
    fallbackRuns,  \* executions of process_conversation_sync
    content,       \* what the Escalation Handler last produced
    kind,          \* the branch that returned
    reply,         \* the reply returned to the caller
    event_future,  \* the Event Extractor task: "none", "pending", or its result
    scheduled,     \* the writes each call has scheduled, in order
    llm_invocations,  \* reply-generating llm.invoke calls of the concurrent path
    pending,       \* submit coroutines scheduled with create_task, in order
    queue,         \* FirebaseWriter.queue
    puts,          \* tasks put on the queue so far
    wpc,           \* the worker: "get" (awaiting queue.get) or "exec"
    cur,           \* the item the worker dequeued last
    running,       \* queued operations executing in a thread
    executed,      \* sequence numbers in the order the worker started them
    logged,        \* failures of queued operations the worker has logged
    db,            \* FirebaseManager.db is set (the store is initialized)
    users,         \* the Firestore collection 'users', by document id
    events,        \* the subcollection users/{email}/events of each user
    conversations, \* the subcollection users/{email}/conversations of each user
    response,      \* what llm.invoke gives the component called
    result         \* what the component called last was given and returned

taskVars == <<event_future, scheduled, llm_invocations>>

callVars ==
    <<pc, msg, fetched, urgency, emotion, verdict, pass, invoked, asyncRaised,
      fallbackRuns, content, kind, reply, taskVars>>

writerVars == <<queue, puts, wpc, cur, running, executed, logged>>

storeVars == <<events, conversations>>

componentVars == <<db, users, storeVars, response, result>>

vars == <<callVars, pending, writerVars, componentVars>>

Task(op, c, message, text, e, u) ==
    [op |-> op, call |-> c, message |-> message, reply |-> text,
     emotion |-> e, urgency_level |-> u]

\* writer.submit(add_chat_pair, email, message, text, emotion, urgency_level)
\* and writer.submit(add_suggestions, ..., emotion, urgency_level, ...,
\* message), which has no reply among its arguments.
WriteTask(op, c, text) == Task(op, c, msg[c], text, emotion[c], urgency[c])

\* writer.submit(add_event, email, event)
EventTask(c) == Task("add_event", c, msg[c], NoReply, <<>>, 0)

NoItem == [seq |-> 0, task |-> Task("none", 0, <<>>, NoReply, <<>>, 0)]

NoneInvoked == [p \in Passes |-> {}]

\* Arguments and values are records, whichever component was called.
NoResult ==
    [fn |-> "none", arg |-> [none |-> TRUE], raised |-> FALSE,
     value |-> [none |-> TRUE]]

Returns(fn, arg, raised, value) ==
    [fn |-> fn, arg |-> arg, raised |-> raised, value |-> value]

\* No process call has started and the writer's worker awaits queue.get.
InitOrchestrator ==
    /\ pc = [c \in Calls |-> "idle"]
    /\ msg = [c \in Calls |-> <<>>]
    /\ fetched = [c \in Calls |-> {}]
    /\ urgency = [c \in Calls |-> 0]
    /\ emotion = [c \in Calls |-> <<>>]
    /\ verdict = [c \in Calls |-> "none"]
    /\ pass = [c \in Calls |-> "none"]
    /\ invoked = [c \in Calls |-> NoneInvoked]
    /\ asyncRaised = [c \in Calls |-> FALSE]
    /\ fallbackRuns = [c \in Calls |-> 0]
    /\ content = [c \in Calls |-> NoReply]
    /\ kind = [c \in Calls |-> "none"]
    /\ reply = [c \in Calls |-> NoReply]
    /\ event_future = [c \in Calls |-> "none"]
    /\ scheduled = [c \in Calls |-> <<>>]
    /\ llm_invocations = [c \in Calls |-> 0]
    /\ pending = <<>>
    /\ queue = <<>>
    /\ puts = 0
    /\ wpc = "get"
    /\ cur = NoItem
    /\ running = {}
    /\ executed = <<>>
    /\ logged = 0

\* No user has an event or a conversation stored.
NoStore ==
    /\ events = [e \in Emails |-> {}]
    /\ conversations = [e \in Emails |-> [b \in Buckets |-> NoConversation]]

Init ==
    /\ InitOrchestrator
    /\ db = TRUE
    /\ users = [e \in Emails |-> NoDocument]
    /\ NoStore
    /\ response = Response(TRUE, <<>>)
    /\ result = NoResult

\* ---------------------------------------------------------- write queue
queue_get_newest(q) ==
    [item |-> q[Len(q)], rest |-> SubSeq(q, 1, Len(q) - 1)]

queue_get_keeping(q) == [item |-> Head(q), rest |-> q]

\* asyncio.Queue.get: takes the item at the head of the FIFO.
queue_get(q) == [item |-> Head(q), rest |-> Tail(q)]

\* asyncio.Queue.put on an unbounded queue: append.
queue_put(q, item) == Append(q, item)

queue_full_at_one(q) == Len(q) >= 1

\* asyncio.Queue.full: the queue is created with no maxsize, so never.
queue_full(q) == FALSE

\* FirebaseWriter.submit, run by the loop: the oldest scheduled submit
\* coroutine puts its task on the queue.  The queue is unbounded, so put
\* never suspends.
submit ==
    /\ pending # <<>>
    /\ ~queue_full(queue)
    /\ puts' = puts + 1
    /\ queue' = queue_put(queue, [seq |-> puts + 1, task |-> Head(pending)])
    /\ pending' = Tail(pending)
    /\ UNCHANGED <<componentVars, callVars, wpc, cur, running, executed, logged>>

after_dequeue_not_awaited == "get"

\* The worker after it handed the operation to a thread: it awaits the thread.
after_dequeue == "exec"

\* _worker: queue.get returns an item and asyncio.to_thread starts it.
worker_get ==
    /\ wpc = "get"
    /\ queue # <<>>
    /\ cur' = queue_get(queue).item
    /\ queue' = queue_get(queue).rest
    /\ running' = running \cup { queue_get(queue).item.seq }
    /\ executed' = Append(executed, queue_get(queue).item.seq)
    /\ wpc' = after_dequeue
    /\ UNCHANGED <<componentVars, callVars, pending, puts, logged>>

after_failure_stops == "stopped"

\* _worker after an operation raised: except logs, finally task_done, loop.
after_failure == "get"

\* _worker: the thread finishes, normally or by raising; the worker resumes,
\* logs a failure, calls task_done and loops.
worker_finish ==
    /\ wpc = "exec"
    /\ \E ok \in BOOLEAN :
        /\ logged' = IF ok THEN logged ELSE logged + 1
        /\ wpc' = IF ok THEN "get" ELSE after_failure
    /\ running' = running \ { cur.seq }
    /\ UNCHANGED <<componentVars, callVars, pending, queue, puts, cur, executed>>

\* ------------------------------------------------------- process calls
\* asyncio.create_task(self.writer.submit(...)) for each task of ts.
create_tasks(ts) == pending \o ts

\* Call c schedules the tasks ts.
Schedule(c, ts) ==
    /\ pending' = create_tasks(ts)
    /\ scheduled' = [scheduled EXCEPT ![c] = @ \o ts]

Invoke(c, p, caps) ==
    [invoked EXCEPT ![c][p] = invoked[c][p] \cup caps]

on_async_exception_propagates == "raised"

\* The except clause of process_conversation_async: the degraded fallback
\* is called in place of the error.
on_async_exception == "fallback"

\* The concurrent path of call c raised.
RaiseAsync(c) ==
    /\ pc' = [pc EXCEPT ![c] = on_async_exception]
    /\ asyncRaised' = [asyncRaised EXCEPT ![c] = TRUE]

\* A return statement of call c.
Return(c, k, text) ==
    /\ pc' = [pc EXCEPT ![c] = "done"]
    /\ kind' = [kind EXCEPT ![c] = k]
    /\ reply' = [reply EXCEPT ![c] = text]

\* process_conversation_async is called: asyncio.gather starts the three
\* fetches in threads.
process_conversation_async(c) ==
    /\ pc[c] = "idle"
    /\ \E m \in Messages : msg' = [msg EXCEPT ![c] = m]
    /\ pc' = [pc EXCEPT ![c] = "fetch"]
    /\ pass' = [pass EXCEPT ![c] = "async"]
    /\ invoked' = Invoke(c, "async", Fetches)
    /\ UNCHANGED <<fetched, urgency, emotion, verdict, asyncRaised,
                   fallbackRuns, content, kind, reply, taskVars, pending,
                   writerVars, componentVars>>

\* get_user_profile finishes: it returns a profile, or raises when the store
\* is not initialized, the read fails or no profile is stored; gather then
\* raises at once.
get_user_profile_done(c) ==
    /\ pc[c] = "fetch"
    /\ "profile" \notin fetched[c]
    /\ \E ok \in BOOLEAN :
        IF ok
        THEN /\ fetched' = [fetched EXCEPT ![c] = @ \cup {"profile"}]
             /\ UNCHANGED <<pc, asyncRaised>>
        ELSE /\ RaiseAsync(c)
             /\ UNCHANGED fetched
    /\ UNCHANGED <<msg, urgency, emotion, verdict, pass, invoked,
                   fallbackRuns, content, kind, reply, taskVars, pending,
                   writerVars, componentVars>>

\* detect_emotion finishes: it never raises.
detect_emotion_done(c) ==
    /\ pc[c] = "fetch"
    /\ "classifier" \notin fetched[c]
    /\ \E emotion_urgency \in ClassifierResults :
        /\ emotion' = [emotion EXCEPT ![c] = emotion_urgency.emotion]
        /\ urgency' = [urgency EXCEPT ![c] = emotion_urgency.urgency_level]
    /\ fetched' = [fetched EXCEPT ![c] = @ \cup {"classifier"}]
    /\ UNCHANGED <<pc, msg, verdict, pass, invoked, asyncRaised, fallbackRuns,
                   content, kind, reply, taskVars, pending, writerVars,
                   componentVars>>

\* get_conversation finishes: it never raises.
get_conversation_done(c) ==
    /\ pc[c] = "fetch"
    /\ "turns" \notin fetched[c]
    /\ fetched' = [fetched EXCEPT ![c] = @ \cup {"turns"}]
    /\ UNCHANGED <<pc, msg, urgency, emotion, verdict, pass, invoked,
                   asyncRaised, fallbackRuns, content, kind, reply, taskVars,
                   pending, writerVars, componentVars>>

gathered_first(c) == fetched[c] # {}

\* 'await asyncio.gather(...)' returns when the three fetches have returned.
gathered(c) == fetched[c] = Fetches

\* gather returned: the topic filter is started in a thread unless the
\* message starts with the test prefix; then topic_filter is unbound and
\* reading it raises UnboundLocalError.
after_gather(c) ==
    /\ pc[c] = "fetch"
    /\ gathered(c)
    /\ IF startswith(msg[c], TEST_PREFIX)
       THEN /\ RaiseAsync(c)
            /\ UNCHANGED invoked
       ELSE /\ pc' = [pc EXCEPT ![c] = "filter"]
            /\ invoked' = Invoke(c, "async", {"filter"})
            /\ UNCHANGED asyncRaised
    /\ UNCHANGED <<msg, fetched, urgency, emotion, verdict, pass,
                   fallbackRuns, content, kind, reply, taskVars, pending,
                   writerVars, componentVars>>

redirect_writes_none(c) == <<>>

\* The writes of the out-of-scope branch.
redirect_writes(c) == <<WriteTask("add_chat_pair", c, REDIRECT)>>

escalation_writes_with_suggestions(c, text) ==
    <<WriteTask("add_chat_pair", c, text),
      WriteTask("add_suggestions", c, NoReply)>>

\* The writes of the escalation branch.
escalation_writes(c, text) == <<WriteTask("add_chat_pair", c, text)>>

\* The topic filter finishes.  Not relevant: the redirect is returned and one
\* write is scheduled.  Relevant: the event extractor task is created, and
\* at urgency 5 the Escalation Handler is called in the same step, its reply
\* returned and one write scheduled; the extractor task is left pending.
filter_done(c) ==
    /\ pc[c] = "filter"
    /\ \E f \in FilterOutcomes, crisis \in CrisisResults :
        LET k == async_branch(f = "relevant", urgency[c]) IN
        IF f = "raise"
        THEN /\ RaiseAsync(c)
             /\ UNCHANGED <<verdict, invoked, content, kind, reply, pending,
                            event_future, scheduled>>
        ELSE
        /\ verdict' = [verdict EXCEPT ![c] = f]
        /\ IF k = "redirect"
           THEN /\ Return(c, "redirect", REDIRECT)
                /\ Schedule(c, redirect_writes(c))
                /\ UNCHANGED <<invoked, content, asyncRaised, event_future>>
           ELSE
           /\ event_future' = [event_future EXCEPT ![c] = "pending"]
           /\ IF k = "escalation"
              THEN /\ invoked' = Invoke(c, "async", {"extractor", "escalation"})
                   /\ IF crisis.raised
                      THEN /\ RaiseAsync(c)
                           /\ UNCHANGED <<content, kind, reply, pending,
                                          scheduled>>
                      ELSE /\ content' = [content EXCEPT ![c] = crisis.content]
                           /\ Return(c, "escalation", crisis.content)
                           /\ Schedule(c, escalation_writes(c, crisis.content))
                           /\ UNCHANGED asyncRaised
              ELSE /\ invoked' = Invoke(c, "async", {"extractor"})
                   /\ pc' = [pc EXCEPT ![c] = "extract"]
                   /\ UNCHANGED <<content, kind, reply, pending, scheduled,
                                  asyncRaised>>
    /\ UNCHANGED <<msg, fetched, urgency, emotion, pass, fallbackRuns,
                   llm_invocations, writerVars, componentVars>>

ExtractorResults == { "event", "no_event" }

event_writes_never(c, event) == <<>>

event_writes_always(c, event) == <<EventTask(c)>>

\* 'if event: create_task(writer.submit(add_event, email, event))'
event_writes(c, event) == IF event = "event" THEN <<EventTask(c)>> ELSE <<>>

\* await event_future returns: the extractor never raises; an event is
\* scheduled for storage; _generate_response_async starts llm.invoke.
extract_done(c) ==
    /\ pc[c] = "extract"
    /\ \E event \in ExtractorResults :
        /\ event_future' = [event_future EXCEPT ![c] = event]
        /\ Schedule(c, event_writes(c, event))
    /\ pc' = [pc EXCEPT ![c] = "generate"]
    /\ invoked' = Invoke(c, "async", {"generate"})
    /\ llm_invocations' = [llm_invocations EXCEPT ![c] = @ + 1]
    /\ UNCHANGED <<msg, fetched, urgency, emotion, verdict, pass, asyncRaised,
                   fallbackRuns, content, kind, reply, writerVars,
                   componentVars>>

\* The extractor task of a call that returned, or fell back, on the
\* escalation branch finishes in its thread: nobody awaits its result.
event_future_done(c) ==
    /\ pc[c] \in {"done", "fallback", "raised"}
    /\ event_future[c] = "pending"
    /\ \E event \in ExtractorResults :
        event_future' = [event_future EXCEPT ![c] = event]
    /\ UNCHANGED <<pc, msg, fetched, urgency, emotion, verdict, pass, invoked,
                   asyncRaised, fallbackRuns, content, kind, reply, scheduled,
                   llm_invocations, pending, writerVars, componentVars>>

normal_writes_suggestions_first(c, text) ==
    <<WriteTask("add_suggestions", c, NoReply),
      WriteTask("add_chat_pair", c, text)>>

\* The writes of the normal branch, in the order of their create_task calls.
normal_writes(c, text) ==
    <<WriteTask("add_chat_pair", c, text),
      WriteTask("add_suggestions", c, NoReply)>>

\* _generate_response_async: llm.invoke finishes; the two writes are
\* scheduled and the reply returned, or the exception is raised again.
generate_done(c) ==
    /\ pc[c] = "generate"
    /\ \E g \in GenOutcomes :
        IF g.raised
        THEN /\ RaiseAsync(c)
             /\ UNCHANGED <<kind, reply, pending, scheduled>>
        ELSE /\ Return(c, "normal", g.content)
             /\ Schedule(c, normal_writes(c, g.content))
             /\ UNCHANGED asyncRaised
    /\ UNCHANGED <<msg, fetched, urgency, emotion, verdict, pass, invoked,
                   fallbackRuns, content, event_future, llm_invocations,
                   writerVars, componentVars>>

SyncRaise(caps, v, cls) ==
    [raised |-> TRUE, kind |-> "none", reply |-> NoReply, invoked |-> caps,
     verdict |-> v, urgency |-> cls.urgency_level, emotion |-> cls.emotion,
     content |-> NoReply]

SyncReturn(k, text, caps, v, cls, cont) ==
    [raised |-> FALSE, kind |-> k, reply |-> text, invoked |-> caps,
     verdict |-> v, urgency |-> cls.urgency_level, emotion |-> cls.emotion,
     content |-> cont]

\* process_conversation_sync: profile, turns, topic filter and classifier
\* are called in this order, then the branches are tried.
sync_result(message, profileOk, f, cls, crisis, g) ==
    LET all == {"profile", "turns", "filter", "classifier"}
        k == sync_branch(message, f = "relevant", cls.urgency_level)
        unclassified == Classified(<<>>, 0)
    IN  IF ~profileOk THEN SyncRaise({"profile"}, "none", unclassified)
        ELSE IF f = "raise"
             THEN SyncRaise({"profile", "turns", "filter"}, "none",
                            unclassified)
        ELSE IF k = "test"
             THEN SyncReturn("test", TEST_REPLY, all, f, cls, NoReply)
        ELSE IF k = "redirect"
             THEN SyncReturn("redirect", REDIRECT, all, f, cls, NoReply)
        ELSE IF k = "escalation"
             THEN IF crisis.raised
                  THEN SyncRaise(all \cup {"escalation"}, f, cls)
                  ELSE SyncReturn("escalation", crisis.content,
                                  all \cup {"escalation"}, f, cls,
                                  crisis.content)
        ELSE IF g.raised
             THEN SyncRaise(all \cup {"generate"}, f, cls)
             ELSE SyncReturn("normal", g.content, all \cup {"generate"},
                             f, cls, NoReply)

\* What process_conversation_sync may do for a message, over every outcome
\* of its collaborators.
SyncResults ==
    { [message |-> m,
       result |-> sync_result(m, profileOk, f, cls, crisis, g)] :
        m \in Messages, profileOk \in BOOLEAN, f \in FilterOutcomes,
        cls \in ClassifierResults, crisis \in CrisisResults,
        g \in GenOutcomes }

sync_writes_reached(c, k, text) ==
    IF k = "normal" THEN normal_writes(c, text) ELSE <<>>

\* The writes of the degraded fallback: its two writer.submit calls follow
\* 'return response.content' and are never reached.
sync_writes(c, k, text) == <<>>

\* The degraded fallback runs on the loop without suspending; its own
\* exception is raised again and reaches the caller.
process_conversation_sync(c) ==
    /\ pc[c] = "fallback"
    /\ \E r \in { sr.result : sr \in { x \in SyncResults :
                                         x.message = msg[c] } } :
        /\ pc' = [pc EXCEPT ![c] = IF r.raised THEN "raised" ELSE "done"]
        /\ kind' = [kind EXCEPT ![c] = r.kind]
        /\ reply' = [reply EXCEPT ![c] = r.reply]
        /\ invoked' = Invoke(c, "sync", r.invoked)
        /\ verdict' = [verdict EXCEPT ![c] = r.verdict]
        /\ urgency' = [urgency EXCEPT ![c] = r.urgency]
        /\ emotion' = [emotion EXCEPT ![c] = r.emotion]
        /\ content' = [content EXCEPT ![c] = r.content]
        /\ Schedule(c, sync_writes(c, r.kind, r.reply))
    /\ pass' = [pass EXCEPT ![c] = "sync"]
    /\ fallbackRuns' = [fallbackRuns EXCEPT ![c] = @ + 1]
    /\ fetched' = [fetched EXCEPT ![c] = {}]    \* the gather is abandoned
    /\ UNCHANGED <<msg, asyncRaised, event_future, llm_invocations,
                   writerVars, componentVars>>

\* ---------------------------------------------------------- components
\* The collaborators called on their own: the store is in any state, or the
\* text-generation capability gives any response.
ComponentInit ==
    /\ InitOrchestrator
    /\ result = NoResult
    /\ \/ /\ db \in BOOLEAN
          /\ users \in [Emails -> Documents]
          /\ response = Response(TRUE, <<>>)
          /\ NoStore
       \/ /\ db = TRUE
          /\ users = [e \in Emails |-> NoDocument]
          /\ response \in Responses(ClassifierLines \cup FilterLines)
          /\ NoStore

call_get_user_profile ==
    /\ \E email \in Emails, readable \in BOOLEAN :
        LET r == get_user_profile(db, readable, users, email) IN
        /\ result' = Returns("get_user_profile",
                         [email |-> email, existed |-> users[email].exists,
                          readable |-> readable],
                         r.raised, [name |-> r.name])
        /\ users' = r.users
    /\ UNCHANGED <<db, storeVars, response, callVars, pending, writerVars>>

call_detect_emotion ==
    /\ result' = Returns("detect_emotion", response, FALSE,
                         detect_emotion(response))
    /\ UNCHANGED <<db, users, storeVars, response, callVars, pending, writerVars>>

call_filter ==
    /\ result' = Returns("filter", response, filter(response).raised,
                         filter(response))
    /\ UNCHANGED <<db, users, storeVars, response, callVars, pending, writerVars>>

\* handle_crisis_situation reads the profile, then calls llm.invoke.
call_handle_crisis_situation ==
    /\ \E email \in Emails, readable \in BOOLEAN, gen \in CrisisGenOutcomes :
        LET p == get_user_profile(db, readable, users, email)
            r == handle_crisis_situation(~p.raised, p.name, gen)
        IN  /\ result' = Returns("handle_crisis_situation",
                             [email |-> email, gen |-> gen, name |-> p.name],
                             r.raised, [content |-> r.content])
            /\ users' = p.users
    /\ UNCHANGED <<db, storeVars, response, callVars, pending, writerVars>>

\* The Event Extractor called on its own: llm.invoke gives any output.
call_extract_events ==
    /\ \E message \in Messages, email \in Emails, now \in Times :
        LET r == extract_events_with_llm(message, email, response, now) IN
        result' = Returns("extract_events_with_llm",
                          [message |-> message, email |-> email,
                           out |-> response],
                          r.raised, [found |-> r.found, event |-> r.event])
    /\ UNCHANGED <<db, users, storeVars, response, callVars, pending,
                   writerVars>>

ExtractorInit ==
    /\ InitOrchestrator
    /\ db = TRUE
    /\ users = [e \in Emails |-> NoDocument]
    /\ NoStore
    /\ response \in ExtractorOutputs
    /\ result = NoResult

ExtractorSpec == ExtractorInit /\ [][call_extract_events]_vars

\* add_event and delete_events called on the events of the users.
MaxEvents == 2

Stored == UNION { events[e] : e \in Emails }

EventInit ==
    /\ InitOrchestrator
    /\ db \in BOOLEAN
    /\ users = [e \in Emails |-> NoDocument]
    /\ NoStore
    /\ response = Response(TRUE, <<>>)
    /\ result = NoResult

call_add_event ==
    /\ \E detected \in DetectedEvents, writable \in BOOLEAN :
        LET email == detected.email
            event == detected.event
        IN  /\ \/ Cardinality(Stored) < MaxEvents
               \/ \E d \in events[email] : d.eventid = event.eventid
            /\ events' = [events EXCEPT
                            ![email] = add_event(db, writable, @, event)]
            /\ result' = Returns("add_event",
                                 [email |-> email, event |-> event],
                                 FALSE,
                                 [replaced |-> events[email] \ events'[email]])
    /\ UNCHANGED <<db, users, conversations, response, callVars, pending,
                   writerVars>>

call_delete_events ==
    /\ \E email \in Emails :
        \E event_list \in SeqsUpTo(events[email], MaxEvents) :
          \E deletable \in SUBSET (1..MaxEvents) :
            /\ events' = [events EXCEPT
                            ![email] = delete_events(db, deletable, @,
                                                     event_list)]
            /\ result' = Returns("delete_events",
                                 [email |-> email, events |-> event_list,
                                  deletable |-> deletable],
                                 FALSE,
                                 [deleted |-> events[email] \ events'[email]])
    /\ UNCHANGED <<db, users, conversations, response, callVars, pending,
                   writerVars>>

EventNext == call_add_event \/ call_delete_events

EventSpec == EventInit /\ [][EventNext]_vars

\* add_chat_pair, get_conversation and the Topic Filter's input on the
\* conversations of the users.
MaxPairs == 4

Limits == { 2, HISTORY_LIMIT }

\* A conversation document after chat pairs were added without a failure.
StoredConversation(chat) ==
    IF chat = <<>> THEN NoConversation
    ELSE Conversation(Len(chat), 2 * Len(chat), chat)

RECURSIVE SumCounts(_)
SumCounts(S) ==
    IF S = {} THEN 0
    ELSE LET x == CHOOSE y \in S : TRUE IN
         conversations[x[1]][x[2]].chatPairCount + SumCounts(S \ {x})

ConversationInit ==
    /\ InitOrchestrator
    /\ db \in BOOLEAN
    /\ users = [e \in Emails |-> NoDocument]
    /\ events = [e \in Emails |-> {}]
    /\ \E y \in SeqsUpTo(ChatPairs, MaxPairs),
          t \in SeqsUpTo(ChatPairs, MaxPairs) :
        /\ Len(y) + Len(t) <= MaxPairs
        /\ db \/ (y = <<>> /\ t = <<>>)
        /\ conversations =
               [e \in Emails |->
                   [b \in Buckets |->
                       IF e # "a@x" THEN NoConversation
                       ELSE IF b = Yesterday THEN StoredConversation(y)
                       ELSE StoredConversation(t)]]
    /\ response = Response(TRUE, <<>>)
    /\ result = NoResult

call_add_chat_pair ==
    /\ SumCounts(Emails \X Buckets) < MaxPairs
    /\ \E email \in Emails, user_message \in Messages,
          set_ok \in BOOLEAN, add_ok \in BOOLEAN :
        /\ conversations' =
               [conversations EXCEPT
                  ![email] = add_chat_pair(db, set_ok, add_ok, @,
                                           user_message, ModelResponse)]
        /\ result' = Returns("add_chat_pair",
                             [email |-> email, user |-> user_message],
                             FALSE, [set_ok |-> set_ok, add_ok |-> add_ok])
    /\ UNCHANGED <<db, users, events, response, callVars, pending,
                   writerVars>>

call_get_conversation ==
    /\ \E email \in Emails, readable \in BOOLEAN, date \in Buckets,
          limit \in Limits :
        LET r == get_conversation(db, readable, conversations[email], email,
                                  date, limit)
        IN  result' = Returns("get_conversation",
                              [email |-> email, readable |-> readable,
                               date |-> date, limit |-> limit],
                              r.raised, [pairs |-> r.value])
    /\ UNCHANGED <<db, users, storeVars, response, callVars, pending,
                   writerVars>>

\* chatbot.py:121-128 and 247-248: the history is fetched and the Topic
\* Filter's input is built from it and the message.
call_last_messages ==
    /\ \E email \in Emails, readable \in BOOLEAN, message \in Messages :
        LET recent_messages ==
                get_conversation(db, readable, conversations[email], email,
                                 Today, HISTORY_LIMIT).value
        IN  result' = Returns("last_messages",
                              [message |-> message,
                               recent_messages |-> recent_messages],
                              FALSE,
                              [last_messages |->
                                   last_messages(recent_messages, message)])
    /\ UNCHANGED <<db, users, storeVars, response, callVars, pending,
                   writerVars>>

ConversationNext ==
    \/ call_add_chat_pair
    \/ call_get_conversation
    \/ call_last_messages

ConversationSpec == ConversationInit /\ [][ConversationNext]_vars

ComponentNext ==
    \/ call_get_user_profile
    \/ call_detect_emotion
    \/ call_filter
    \/ call_handle_crisis_situation

ComponentSpec == ComponentInit /\ [][ComponentNext]_vars

\* ------------------------------------------------------------ the system
Next ==
    \/ \E c \in Calls : process_conversation_async(c)
    \/ \E c \in Calls : get_user_profile_done(c)
    \/ \E c \in Calls : detect_emotion_done(c)
    \/ \E c \in Calls : get_conversation_done(c)
    \/ \E c \in Calls : after_gather(c)
    \/ \E c \in Calls : filter_done(c)
    \/ \E c \in Calls : extract_done(c)
    \/ \E c \in Calls : event_future_done(c)
    \/ \E c \in Calls : generate_done(c)
    \/ \E c \in Calls : process_conversation_sync(c)
    \/ submit
    \/ worker_get
    \/ worker_finish

Spec == Init /\ [][Next]_vars

\* The worker is scheduled fairly and every queued operation terminates.
LiveSpec ==
    Init /\ [][Next]_vars /\ WF_vars(worker_get) /\ WF_vars(worker_finish)

\* ================================================================ claims
ReplyKinds == { "test", "redirect", "escalation", "normal" }

Returned(c) == pc[c] = "done"

\* C1: a call that returns has returned exactly one reply kind, the one its
\* verdict and urgency select with the filter checked before the urgency;
\* the Escalation Handler is invoked only in a pass whose topic filter
\* returned a relevant verdict.
C1_OneReplyKind ==
    \A c \in Calls :
        /\ ~Returned(c) => kind[c] = "none" /\ reply[c] = NoReply
        /\ Returned(c) =>
            /\ kind[c] \in ReplyKinds
            /\ kind[c] = "test" => reply[c] = TEST_REPLY
            /\ kind[c] = "redirect" =>
                   reply[c] = REDIRECT /\ verdict[c] = "not_relevant"
            /\ kind[c] = "escalation" =>
                   /\ verdict[c] = "relevant" /\ urgency[c] >= 5
                   /\ reply[c] = content[c]
            /\ kind[c] = "normal" =>
                   /\ verdict[c] = "relevant" /\ urgency[c] < 5
                   /\ reply[c] \in GeneratedTexts
        /\ \A p \in Passes :
               "escalation" \in invoked[c][p] =>
                   /\ "filter" \in invoked[c][p]
                   /\ p = pass[c] => verdict[c] = "relevant"

C1_Witness ==
    \E c \in Calls :
        Returned(c) /\ kind[c] = "escalation" /\ pass[c] = "async"

\* C2 (as stated): at urgency 1..4 the Escalation Handler is not invoked; a
\* call that returns with urgency 5 and a relevant verdict has invoked it
\* and returns its content.
C2_EscalationIffUrgent ==
    \A c \in Calls :
        pass[c] \in Passes =>
            /\ urgency[c] \in 1..4 => "escalation" \notin invoked[c][pass[c]]
            /\ Returned(c) /\ urgency[c] = 5 /\ verdict[c] = "relevant" =>
                   /\ "escalation" \in invoked[c][pass[c]]
                   /\ reply[c] = content[c]

\* C3 (as stated): with a verdict that is not relevant the reply is the
\* redirect, and handler, generation and extractor are not invoked.
C3_NotRelevantRedirects ==
    \A c \in Calls :
        pass[c] \in Passes /\ verdict[c] = "not_relevant" =>
            /\ invoked[c][pass[c]]
                   \cap {"escalation", "generate", "extractor"} = {}
            /\ Returned(c) => reply[c] = REDIRECT

WritesOf(c) ==
    { i \in DOMAIN pending : pending[i].call = c } \cup
    { -i : i \in { j \in DOMAIN queue : queue[j].task.call = c } }

\* C4 (as stated): a call with a test-prefixed message invokes no external
\* capability, schedules no write and returns the sentinel.
C4_TestShortCircuits ==
    \A c \in Calls :
        startswith(msg[c], TEST_PREFIX) =>
            /\ \A p \in Passes : invoked[c][p] = {}
            /\ WritesOf(c) = {}
            /\ pc[c] # "raised"
            /\ Returned(c) => reply[c] = TEST_REPLY

\* C5: when the concurrent path raises, the fallback runs exactly once and
\* the call ends with the fallback's result; the caller sees an exception
\* only when the fallback raised.
C5_FallbackOnce ==
    \A c \in Calls :
        /\ fallbackRuns[c] <= 1
        /\ fallbackRuns[c] = 1 => asyncRaised[c]
        /\ pc[c] \in {"done", "raised"} /\ asyncRaised[c] =>
               fallbackRuns[c] = 1 /\ pass[c] = "sync"
        /\ pc[c] = "raised" => asyncRaised[c] /\ fallbackRuns[c] = 1
        /\ Returned(c) /\ asyncRaised[c] => kind[c] \in ReplyKinds

C5_Witness ==
    \E c \in Calls :
        Returned(c) /\ asyncRaised[c] /\ fallbackRuns[c] = 1
            /\ ~startswith(msg[c], TEST_PREFIX)

NoDuplicates(q) == \A i, j \in DOMAIN q : q[i] = q[j] => i = j

\* C6: the worker starts the tasks in the order submit put them on the
\* queue: the n-th task started is the n-th task put, and the tasks still
\* queued follow in put order.
C6_Fifo ==
    /\ \A i \in DOMAIN executed : executed[i] = i
    /\ \A i \in DOMAIN queue : queue[i].seq = Len(executed) + i

C6_Witness == Len(executed) >= 3 /\ Len(queue) >= 2

\* C7: when a queued operation raises, the worker logs it once and goes back
\* to queue.get; the task is not put back on the queue or scheduled again,
\* no task is started twice, and no process call observes the failure.
C7_FailureIsolated ==
    /\ [](wpc \in {"get", "exec"} /\ NoDuplicates(executed))
    /\ [][logged' # logged =>
            /\ logged' = logged + 1
            /\ wpc' = "get"
            /\ queue' = queue /\ pending' = pending /\ executed' = executed
            /\ callVars' = callVars]_vars

\* Every task that finished before the running one failed.
C7_Witness ==
    wpc = "exec" /\ Len(executed) >= 2 /\ logged = Len(executed) - 1

\* C8: at most one queued operation executes at any moment, and it is the
\* one the single worker dequeued last.
C8_OneAtATime ==
    /\ Cardinality(running) <= 1
    /\ wpc = "exec" => running = { cur.seq }
    /\ wpc = "get" => running = {}

\* Two calls in flight have submitted; one task runs, the other waits.
C8_Witness ==
    /\ wpc = "exec"
    /\ pc[cur.task.call] = "generate"
    /\ \E i \in DOMAIN queue :
           /\ queue[i].task.call # cur.task.call
           /\ pc[queue[i].task.call] = "generate"

Finished(n) == (\E i \in DOMAIN executed : executed[i] = n) /\ n \notin running

\* C9: under fair scheduling of the worker, every task put on the queue is
\* eventually executed to its end, and no task is started twice.
C9_EveryTaskExecuted ==
    /\ \A n \in 1..(3 * NumCalls) : (puts >= n) ~> Finished(n)
    /\ [](NoDuplicates(executed))

C9_Witness ==
    puts = 3 * NumCalls /\ Len(executed) = puts /\ running = {} /\ logged >= 1

ScheduledWrite(c, op, text) ==
    \E i \in DOMAIN pending : pending[i] = WriteTask(op, c, text)

\* C10: a scheduled submit can always run, whatever the queue length and
\* whether or not the worker is executing; it appends its task and changes
\* nothing else; and the concurrent path returns its reply while the write
\* of that reply is still only scheduled.
C10_SubmitNeverWaits ==
    /\ [](pending # <<>> => ENABLED submit)
    /\ [][puts' # puts =>
            /\ queue' = Append(queue, [seq |-> puts + 1, task |-> Head(pending)])
            /\ pending' = Tail(pending)
            /\ UNCHANGED <<componentVars, callVars, wpc, cur, running, executed, logged>>]_vars
    /\ [][\A c \in Calls :
            pc[c] # "done" /\ pc'[c] = "done" /\ pass'[c] = "async" =>
                ScheduledWrite(c, "add_chat_pair", reply[c])']_vars

C10_Witness ==
    /\ wpc = "exec" /\ Len(queue) >= 2 /\ pending # <<>>
    /\ \E c \in Calls :
           Returned(c) /\ ScheduledWrite(c, "add_chat_pair", reply[c])

\* C11 (as stated): whenever the Escalation Handler returns, whatever its
\* text-generation call gave (exception, text without JSON, JSON without the
\* field, well-formed JSON), the content is not empty, and it is the fixed
\* supportive message naming the user when generation or parsing failed.
C11_HandlerNeverEmpty ==
    result.fn = "handle_crisis_situation" /\ ~result.raised =>
        /\ result.value.content # <<>>
        /\ result.arg.gen \in {"raise", "no_json"} =>
               result.value.content = fallback_message(result.arg.name)

\* The last line of a response that starts with the label, if any.
\* C12 (as stated): whenever a call returns on the escalation branch, on
\* either path, the reply it returns contains each of the four mandated
\* crisis-resource lines, also when the handler's text generation failed
\* and the handler's fallback message is used.
C12_EscalationReplyHasResources ==
    \A c \in Calls :
        pc[c] = "done" /\ kind[c] = "escalation" =>
            \A i \in DOMAIN CRISIS_RESOURCES :
                \E j \in DOMAIN reply[c] : reply[c][j] = CRISIS_RESOURCES[i]

LinesWith(lines, label) == { i \in DOMAIN lines : lines[i].label = label }

LastWith(lines, label) ==
    lines[CHOOSE i \in LinesWith(lines, label) :
              \A j \in LinesWith(lines, label) : j <= i]

\* C13 (as stated): the Topic Filter never raises; when its text-generation
\* call raised, or the MENTAL_HEALTH line is missing, the verdict is not
\* relevant; when the call raised, or the CONFIDENCE line is missing or its
\* value is no number, the confidence is 0.1.
C13_FilterSafeDefault ==
    result.fn = "filter" =>
        /\ ~result.raised
        /\ response.raised \/ LinesWith(response.lines, "MENTAL_HEALTH:") = {}
               => ~result.value.is_mental_health_related
        /\ \/ response.raised
           \/ LinesWith(response.lines, "CONFIDENCE:") = {}
           \/ ~float(LastWith(response.lines, "CONFIDENCE:").value).ok
               => result.value.confidence_score = 10

\* C14 (as stated): a lookup of a user with no stored document, on an
\* initialized and readable store, does not raise, returns the default
\* profile named 'Friend' and leaves a stored document that the next lookup
\* of the same user reads.
C14_ReadOrCreateDefault ==
    /\ result.fn = "get_user_profile"
    /\ db /\ result.arg.readable /\ ~result.arg.existed
    => /\ ~result.raised
       /\ result.value.name = "Friend"
       /\ users[result.arg.email].exists
       /\ ~get_user_profile(db, TRUE, users, result.arg.email).raised

\* C15: a run of the degraded fallback, whichever branch it ends on and
\* also when it raises, schedules no submit and leaves the write queue and
\* the number of tasks put on it exactly as they were when it started.
C15_FallbackSubmitsNothing ==
    [][\A c \in Calls :
          pc[c] = "fallback" /\ pc'[c] # "fallback" =>
              /\ pending' = pending
              /\ scheduled' = scheduled
              /\ queue' = queue
              /\ puts' = puts]_vars

\* A fallback returned a generated reply with no write scheduled for its
\* call, while the queue holds another call's task.
C15_Witness ==
    \E c \in Calls :
        /\ pass[c] = "sync" /\ pc[c] = "done" /\ kind[c] = "normal"
        /\ scheduled[c] = <<>>
        /\ queue # <<>>

\* What the branch logic of the concurrent path selects for the same
\* collaborator results: with a test-prefixed message topic_filter is never
\* bound and reading it raises.
async_selects(message, relevant, urgency_level) ==
    IF startswith(message, TEST_PREFIX) THEN "raise"
    ELSE async_branch(relevant, urgency_level)

\* C16 (as stated): a fallback that returns has returned the reply kind the
\* branch logic of the concurrent path selects for the same test-prefix
\* flag, verdict and urgency, with the text of that kind: the redirect
\* string, the handler's content, or the generated text.
C16_SameBranchDecision ==
    \A c \in Calls :
        pass[c] = "sync" /\ pc[c] = "done" =>
            /\ kind[c] = async_selects(msg[c], verdict[c] = "relevant",
                                       urgency[c])
            /\ kind[c] = "redirect" => reply[c] = REDIRECT
            /\ kind[c] = "escalation" => reply[c] = content[c]
            /\ kind[c] = "normal" => reply[c] \in GeneratedTexts

\* The call returned on the concurrent path with this reply kind.
AsyncReturned(c, k) == pass[c] = "async" /\ pc[c] = "done" /\ kind[c] = k

\* C17: a call that returned the redirect on the concurrent path has
\* scheduled exactly one write, an add_chat_pair with its message and the
\* redirect string as the reply, and no other; at the step that returns,
\* that write is a pending submit and the queue has not changed.
C17_RedirectOneWrite ==
    [][\A c \in Calls :
          AsyncReturned(c, "redirect")' =>
              /\ scheduled'[c] =
                     <<Task("add_chat_pair", c, msg[c], REDIRECT,
                            emotion[c], urgency[c])>>
              /\ pc[c] # "done" =>
                     /\ pending' = pending \o scheduled'[c]
                     /\ queue' = queue /\ puts' = puts]_vars

\* A call has returned the redirect while its write is still a pending
\* submit.
C17_Witness ==
    \E c \in Calls :
        /\ AsyncReturned(c, "redirect")
        /\ Len(scheduled[c]) = 1
        /\ \E i \in DOMAIN pending : pending[i] = scheduled[c][1]

\* C18: a call that returned on the escalation branch of the concurrent
\* path has scheduled exactly one write, an add_chat_pair with its message
\* and the escalation reply, and never any other.  The extractor task was
\* started and is still pending at the step that returns (not awaited, not
\* cancelled); when it finishes later its result changes nothing else.
C18_EscalationOneWrite ==
    [][\A c \in Calls :
          AsyncReturned(c, "escalation")' =>
              /\ reply'[c] = content'[c]
              /\ scheduled'[c] =
                     <<Task("add_chat_pair", c, msg[c], reply'[c],
                            emotion[c], urgency[c])>>
              /\ event_future'[c] \in {"pending"} \cup ExtractorResults
              /\ pc[c] # "done" => event_future'[c] = "pending"
              /\ pc[c] = "done" /\ event_future'[c] # event_future[c] =>
                     /\ event_future[c] = "pending"
                     /\ UNCHANGED <<pending, scheduled, queue, puts, reply,
                                    kind, invoked, llm_invocations>>]_vars

\* The abandoned extractor found an event after the escalation reply was
\* returned, and the call's only write is the add_chat_pair.
C18_Witness ==
    \E c \in Calls :
        /\ AsyncReturned(c, "escalation")
        /\ event_future[c] = "event"
        /\ Len(scheduled[c]) = 1 /\ scheduled[c][1].op = "add_chat_pair"

\* The writes of call c on the queue, then those whose submit has not run.
InFlight(c) ==
    SelectSeq([i \in DOMAIN queue |-> queue[i].task],
              LAMBDA t : t.call = c) \o
    SelectSeq(pending, LAMBDA t : t.call = c)

\* C19: a call that returned on the normal branch of the concurrent path
\* invoked the reply-generating llm.invoke exactly once and scheduled, in
\* this order: an add_event write if and only if the extractor returned an
\* event, one add_chat_pair with its message and the generated reply, one
\* add_suggestions with the same emotion and urgency; they go through the
\* queue in that order.
C19_NormalWritesInOrder ==
    \A c \in Calls :
        AsyncReturned(c, "normal") =>
            LET chat == Task("add_chat_pair", c, msg[c], reply[c],
                             emotion[c], urgency[c])
                suggestions == Task("add_suggestions", c, msg[c], NoReply,
                                    emotion[c], urgency[c])
                event == Task("add_event", c, msg[c], NoReply, <<>>, 0)
            IN  /\ llm_invocations[c] = 1
                /\ reply[c] \in GeneratedTexts
                /\ event_future[c] \in ExtractorResults
                /\ scheduled[c] =
                       IF event_future[c] = "event"
                       THEN <<event, chat, suggestions>>
                       ELSE <<chat, suggestions>>
                /\ \E k \in 0..Len(scheduled[c]) :
                       InFlight(c) = SubSeq(scheduled[c], k + 1,
                                            Len(scheduled[c]))

\* A call returned a generated reply after its extractor found an event:
\* three writes are scheduled.
C19_Witness ==
    \E c \in Calls :
        /\ AsyncReturned(c, "normal")
        /\ event_future[c] = "event"
        /\ Len(scheduled[c]) = 3
        /\ emotion[c] # neutral /\ urgency[c] = 3

\* The value a bound-respecting clamp gives: the nearest of lo..hi.
Nearest(v, lo, hi) == IF v < lo THEN lo ELSE IF v > hi THEN hi ELSE v

\* The urgency the classifier's response states last, as int() reads it.
StatedUrgency == int(LastWith(response.lines, "URGENCY:").value)

\* The confidence the filter's response states last, as float() reads it.
StatedConfidence == float(LastWith(response.lines, "CONFIDENCE:").value)

UrgencyClamped ==
    result.fn = "detect_emotion" =>
        /\ result.value.urgency_level \in 1..5
        /\ IF /\ ~response.raised
              /\ LinesWith(response.lines, "URGENCY:") # {}
              /\ StatedUrgency.ok
           THEN result.value.urgency_level = Nearest(StatedUrgency.value, 1, 5)
           ELSE result.value.urgency_level = 1

ConfidenceClamped(lo) ==
    result.fn = "filter" /\ ~result.raised =>
        /\ result.value.confidence_score \in 0..100
        /\ IF /\ LinesWith(response.lines, "CONFIDENCE:") # {}
              /\ StatedConfidence.ok
           THEN StatedConfidence.nan \/
                result.value.confidence_score =
                    Nearest(StatedConfidence.value, lo, 100)
           ELSE result.value.confidence_score = 10

\* C20 (as stated): the urgency is an integer of 1..5 and the confidence is
\* in [0.0, 1.0]; a stated value out of the range becomes the nearest bound
\* of that range, and a value that does not parse becomes 1, or 0.1.
C20_ClampedToSpecRange == UrgencyClamped /\ ConfidenceClamped(0)

\* C20 (amended): as stated, but the confidence is clamped into [0.1, 1.0]:
\* a stated confidence below 0.1 becomes 0.1.
C20_Clamped ==
    /\ UrgencyClamped
    /\ ConfidenceClamped(10)
    /\ result.fn = "filter" /\ ~result.raised =>
           result.value.confidence_score \in 10..100

\* The filter was given a negative confidence and returned 0.1.
C20_Witness ==
    /\ result.fn = "filter" /\ ~result.raised
    /\ LinesWith(response.lines, "CONFIDENCE:") # {}
    /\ StatedConfidence.ok /\ StatedConfidence.value < 0
    /\ result.value.confidence_score = 10

\* C22 (as stated): the Classifier never raises; a failed text generation
\* gives ("neutral", 1); an EMOTION field that is missing or malformed (no
\* word after the label) gives emotion "neutral", and an URGENCY field that
\* is missing or that int() rejects gives urgency 1, which is below the
\* escalation threshold.
C22_ClassifierSafeDefault ==
    result.fn = "detect_emotion" =>
        LET emotions == LinesWith(response.lines, "EMOTION:")
            urgencies == LinesWith(response.lines, "URGENCY:")
        IN  /\ ~result.raised
            /\ response.raised => result.value = Classified(neutral, 1)
            /\ \/ response.raised
               \/ emotions = {}
               \/ LastWith(response.lines, "EMOTION:").value = <<>>
               => result.value.emotion = neutral
            /\ \/ response.raised
               \/ urgencies = {}
               \/ ~StatedUrgency.ok
               => /\ result.value.urgency_level = 1
                  /\ async_branch(TRUE, result.value.urgency_level)
                         # "escalation"

\* C23 (as stated): the Event Extractor never raises; it returns an Event
\* only for a JSON object with has_event true, a confidence of 0.7 or more
\* and valid Event fields (a type, and a date that names a day), the Event
\* carrying them; it returns None when llm.invoke raises, when the text
\* holds no JSON object, when has_event is false, when the confidence is
\* below 0.7 or absent, and when the event date is missing, is no string or
\* names no day.
C23_ExtractorSafeDefault ==
    result.fn = "extract_events_with_llm" =>
        LET out == result.arg.out
            v == result.value
        IN  /\ ~result.raised
            /\ v.found =>
                /\ out.kind = "json" /\ out.has_event = "true"
                /\ out.confidence.kind = "number"
                /\ out.confidence.value >= 70
                /\ out.event_type.kind \in {"absent", "text"}
                /\ out.event_date.kind = "text"
                /\ strptime(v.event.eventDate).ok
                /\ v.event.eventDate = out.event_date.text
                /\ v.event.description = result.arg.message
                /\ out.event_type.kind = "text" =>
                       v.event.eventType = out.event_type.text
            /\ \/ out.kind \in {"raise", "no_json", "bad_json"}
               \/ out.has_event = "false"
               \/ out.confidence.kind = "absent"
               \/ out.confidence.kind = "number" /\ out.confidence.value < 70
               \/ out.event_date.kind \in {"absent", "null", "array"}
               \/ ~strptime(out.event_date.text).ok
               => ~v.found

\* The same type, user, date and message text give the same identifier,
\* whenever the event is detected.
event_id_deterministic ==
    \A a \in DetectedEvents, b \in DetectedEvents :
        /\ a.email = b.email
        /\ a.event.eventType = b.event.eventType
        /\ a.event.eventDate = b.event.eventDate
        /\ a.event.description = b.event.description
        => a.event.eventid = b.event.eventid

SameEvent(a, b) ==
    /\ a.eventType = b.eventType
    /\ a.eventDate = b.eventDate
    /\ a.description = b.description

\* C21: the event identifier is a function of the event type, the user, the
\* event date and the message text, so detecting the same event again gives
\* the same identifier, and a user's stored events hold one record of it
\* however often add_event stored it.
C21_RedetectionIdempotent ==
    /\ event_id_deterministic
    /\ \A e \in Emails : \A a \in events[e], b \in events[e] :
           SameEvent(a, b) => a = b

\* add_event stored an event detected before at another time: the record of
\* the first detection is replaced and one record is left.
C21_Witness ==
    /\ result.fn = "add_event"
    /\ result.arg.event \in events[result.arg.email]
    /\ \E d \in result.value.replaced :
           /\ SameEvent(d, result.arg.event)
           /\ d.mentionedAt # result.arg.event.mentionedAt
    /\ Cardinality({ d \in events[result.arg.email] :
                       SameEvent(d, result.arg.event) }) = 1

\* The place of a date in the calendar.
DayNumber(date) == date.y * 10000 + date.m * 100 + date.d

EventIds(docs) == { d.eventid : d \in docs }

\* The events of the list delete_events removes: past-dated, with a date
\* strptime accepts and a delete that succeeds.
PastDated(event_list, deletable) ==
    { event_list[i] : i \in
        { j \in DOMAIN event_list :
            /\ strptime(event_list[j].eventDate).ok
            /\ DayNumber(strptime(event_list[j].eventDate))
                   < DayNumber(today)
            /\ j \in deletable } }

\* C29: only delete_events removes a stored event, and from the user's
\* events it removes exactly the events of the list dated strictly before
\* today whose delete succeeds: an event dated today or later, one whose
\* date cannot be parsed and one whose delete fails stay, whatever their
\* place in the list.
C29_OnlyPastDeleted ==
    [][\A e \in Emails :
          LET gone == EventIds(events[e]) \ EventIds(events'[e]) IN
          /\ gone # {} =>
                 result'.fn = "delete_events" /\ result'.arg.email = e
          /\ result'.fn = "delete_events" /\ result'.arg.email = e =>
                 events'[e] = events[e] \
                     PastDated(result'.arg.events, result'.arg.deletable)]_vars

\* delete_events ran on a list whose first event has no parseable date and
\* whose second is past-dated: the first is kept and the second is gone.
C29_Witness ==
    /\ result.fn = "delete_events"
    /\ Len(result.arg.events) = 2
    /\ ~strptime(result.arg.events[1].eventDate).ok
    /\ result.arg.events[1] \in events[result.arg.email]
    /\ strptime(result.arg.events[2].eventDate).ok
    /\ DayNumber(strptime(result.arg.events[2].eventDate)) < DayNumber(today)
    /\ result.arg.events[2] \in result.value.deleted
    /\ result.arg.events[2] \notin events[result.arg.email]

C25_FallsBackToLastDay ==
    /\ result.fn = "get_conversation"
    /\ db /\ result.arg.readable
    /\ result.arg.date = Today
    /\ ~conversations[result.arg.email][Today].exists
    /\ conversations[result.arg.email][Yesterday].chat # <<>>
    => /\ result.value.pairs # <<>>
       /\ result.value.pairs =
              last_n(conversations[result.arg.email][Yesterday].chat,
                     result.arg.limit)

\* C28: the Topic Filter is given the user texts of the last three, or
\* fewer, pairs of the fetched history in their order when the history is
\* not empty, whatever the message is, and the message alone when it is
\* empty.
C28_FilterInputFromHistory ==
    result.fn = "last_messages" =>
        LET recent_messages == result.arg.recent_messages
            given == result.value.last_messages
            first == Len(recent_messages) - Len(given)
        IN  /\ recent_messages = <<>> => given = <<result.arg.message>>
            /\ recent_messages # <<>> =>
                /\ Len(given) = IF Len(recent_messages) < 3
                                THEN Len(recent_messages) ELSE 3
                /\ \A i \in DOMAIN given :
                       given[i] = recent_messages[first + i].user
                /\ \A other \in Messages :
                       last_messages(recent_messages, other) = given

\* The history holds four pairs and the message is not the text of its last
\* pair: the filter is given the texts of the last three.
C28_Witness ==
    /\ result.fn = "last_messages"
    /\ Len(result.arg.recent_messages) = 4
    /\ Len(result.value.last_messages) = 3
    /\ result.value.last_messages[3] = result.arg.recent_messages[4].user
    /\ result.arg.message # result.arg.recent_messages[4].user

\* C30 (as stated): in every conversation document chatPairCount is the
\* number of chat pairs stored under it and messageCount is twice that
\* number, after any add_chat_pair calls, failing writes included.
C30_CountersMatchPairs ==
    \A e \in Emails, b \in Buckets :
        /\ conversations[e][b].chatPairCount = Len(conversations[e][b].chat)
        /\ conversations[e][b].messageCount
               = 2 * Len(conversations[e][b].chat)

\* The fetch f of call c returns in this step.
Completes(c, f) == f \notin fetched[c] /\ f \in fetched'[c]

\* The Topic Filter is started, and a reply is chosen by the concurrent
\* path, only when the three fetches have returned; a fetch that returns
\* changes its own result only (the Classifier the emotion and the urgency,
\* the others nothing).
FetchSteps ==
    [][\A c \in Calls :
          /\ "filter" \in invoked'[c]["async"] \ invoked[c]["async"] =>
                 fetched[c] = Fetches
          /\ kind'[c] # kind[c] /\ pass'[c] = "async" =>
                 fetched[c] = Fetches
          /\ \A f \in Fetches :
                 Completes(c, f) =>
                     /\ fetched'[c] = fetched[c] \cup {f}
                     /\ f # "classifier" =>
                            /\ emotion'[c] = emotion[c]
                            /\ urgency'[c] = urgency[c]
                     /\ pc'[c] = pc[c] /\ invoked'[c] = invoked[c]
                     /\ verdict'[c] = verdict[c] /\ kind'[c] = kind[c]
                     /\ reply'[c] = reply[c]
                     /\ scheduled'[c] = scheduled[c]]_vars

\* While a call awaits the gather, every fetch that has not returned can
\* return next, whichever returned before it.
AnyOrder ==
    \A c \in Calls :
        pc[c] = "fetch" =>
            /\ "profile" \notin fetched[c] =>
                   ENABLED get_user_profile_done(c)
            /\ "classifier" \notin fetched[c] =>
                   ENABLED detect_emotion_done(c)
            /\ "turns" \notin fetched[c] =>
                   ENABLED get_conversation_done(c)

\* C26: the three fetches of the concurrent path return in any order; the
\* Topic Filter is not started and no reply is chosen by the concurrent path
\* before the three have returned; each fetch changes its own result only,
\* so what the call goes on with does not depend on the order of the
\* returns.
C26_GatherBeforeFilter == []AnyOrder /\ FetchSteps

\* One call started the Topic Filter with the three fetches returned while
\* in another call the turns returned first, before the profile and the
\* Classifier.
C26_Witness ==
    \E c \in Calls, d \in Calls :
        /\ pc[c] = "filter" /\ fetched[c] = Fetches
        /\ pc[d] = "fetch" /\ fetched[d] = {"turns"}

\* The call c starts the capability cap of the concurrent path in this step.
Starts(c, cap) == cap \in invoked'[c]["async"] \ invoked[c]["async"]

\* C27: on the concurrent path the Event Extractor is started only in the
\* step in which the Topic Filter, started before, returns a relevant
\* verdict, and the urgency is compared with 5 only with the extractor
\* started (the Escalation Handler is never started without it); the
\* reply-generating llm.invoke is started only when the extractor's result
\* has been awaited, with the add_event write of a detected event already
\* scheduled, and nothing else of the call scheduled before it.
C27_ExtractorOrder ==
    [][\A c \in Calls :
          /\ Starts(c, "extractor") =>
                 /\ "filter" \in invoked[c]["async"]
                 /\ verdict[c] = "none" /\ verdict'[c] = "relevant"
                 /\ event_future[c] = "none" /\ event_future'[c] = "pending"
          /\ Starts(c, "escalation") => "extractor" \in invoked'[c]["async"]
          /\ pc[c] = "filter" /\ pc'[c] = "extract" =>
                 "extractor" \in invoked'[c]["async"]
          /\ Starts(c, "generate") =>
                 /\ "extractor" \in invoked[c]["async"]
                 /\ event_future[c] = "pending"
                 /\ event_future'[c] \in ExtractorResults
                 /\ llm_invocations'[c] = llm_invocations[c] + 1
                 /\ scheduled'[c] = IF event_future'[c] = "event"
                                    THEN <<EventTask(c)>> ELSE <<>>
                 /\ \A i \in DOMAIN scheduled'[c] :
                        \E j \in DOMAIN pending' :
                            pending'[j] = scheduled'[c][i]
          /\ llm_invocations'[c] # llm_invocations[c] =>
                 Starts(c, "generate")]_vars

\* A call awaits the generated reply after its extractor found an event:
\* the add_event write is scheduled and llm.invoke has been started once.
C27_Witness ==
    \E c \in Calls :
        /\ pc[c] = "generate" /\ pass[c] = "async"
        /\ verdict[c] = "relevant"
        /\ event_future[c] = "event"
        /\ scheduled[c] = <<EventTask(c)>>
        /\ llm_invocations[c] = 1

====
